---- MODULE Spec2Model ----
(***************************************************************************)
(* Model of main.py: the election-result scraper for volby.cz.             *)
(*                                                                         *)
(* Strings are sequences of characters (one-character TLA+ strings), so    *)
(* that startswith, endswith, strip and replace are computed character by  *)
(* character.  A parsed page (a BeautifulSoup document) is a sequence of   *)
(* tables, a table a sequence of rows (tr), a row a sequence of cells      *)
(* (td); tables are not nested, as on the portal.  A cell carries its      *)
(* class, its headers tokens, its text and the anchors it contains.        *)
(***************************************************************************)
EXTENDS Integers, Sequences, FiniteSets, TLC

VARIABLES argv, pc, status, obec_infos, party_names, header, data, i,
          trace, out, file, call, ret

vars == <<argv, pc, status, obec_infos, party_names, header, data, i,
          trace, out, file, call, ret>>

mainvars == <<argv, pc, status, obec_infos, party_names, header, data, i,
              trace, out, file>>

(***************************************************************************)
(* Bounds of the model.                                                    *)
(***************************************************************************)
\* longest argument list given to validate_arguments
MaxArgs == 4
\* most rows of a territorial-unit page
MaxUnitRows == 3
\* most rows of a municipality page given to parse_obec_data
MaxRows == 3
\* most rows of a municipality page given to get_party_names
MaxNameRows == 6
\* most rows of the territorial-unit page in a run of main
MaxObce == 2

(***************************************************************************)
(* Strings.                                                                *)
(***************************************************************************)
\* the no-break space, '\xa0'
NBSP == "nbsp"

\* the characters str.strip() removes
Whitespace == {" ", "\n", NBSP}

\* str.startswith
StartsWith(s, p) == /\ Len(s) >= Len(p)
                    /\ SubSeq(s, 1, Len(p)) = p

\* str.endswith
EndsWith(s, p) == /\ Len(s) >= Len(p)
                  /\ SubSeq(s, Len(s) - Len(p) + 1, Len(s)) = p

RECURSIVE LStrip(_)
LStrip(s) == IF s # <<>> /\ Head(s) \in Whitespace THEN LStrip(Tail(s)) ELSE s

RECURSIVE RStrip(_)
RStrip(s) == IF s # <<>> /\ s[Len(s)] \in Whitespace
             THEN RStrip(SubSeq(s, 1, Len(s) - 1)) ELSE s

\* str.strip()
Strip(s) == RStrip(LStrip(s))

\* str.replace(ch, '')
RECURSIVE Replace(_, _)
Replace(s, ch) == IF s = <<>> THEN <<>>
                  ELSE IF Head(s) = ch THEN Replace(Tail(s), ch)
                  ELSE <<Head(s)>> \o Replace(Tail(s), ch)

\* "https://www.volby.cz/pls/ps2017nss/ps3"
UrlPrefix == <<"h","t","t","p","s",":","/","/","w","w","w",".","v","o","l","b","y",
               ".","c","z","/","p","l","s","/","p","s","2","0","1","7","n","s","s",
               "/","p","s","3">>

\* ".csv"
CsvSuffix == <<".","c","s","v">>

(***************************************************************************)
(* validate_arguments (main.py 31-50).  The result carries the diagnostic  *)
(* the function prints before it returns False.                            *)
(***************************************************************************)
validate_result_lt(args) ==
    IF Len(args) < 3 THEN [ok |-> FALSE, msg |-> "two_arguments"]
    ELSE IF ~StartsWith(args[2], UrlPrefix) THEN [ok |-> FALSE, msg |-> "bad_url"]
    ELSE IF ~EndsWith(args[3], CsvSuffix) THEN [ok |-> FALSE, msg |-> "bad_csv"]
    ELSE [ok |-> TRUE, msg |-> "none"]

validate_result(args) ==
    IF Len(args) # 3 THEN [ok |-> FALSE, msg |-> "two_arguments"]
    ELSE IF ~StartsWith(args[2], UrlPrefix) THEN [ok |-> FALSE, msg |-> "bad_url"]
    ELSE IF ~EndsWith(args[3], CsvSuffix) THEN [ok |-> FALSE, msg |-> "bad_csv"]
    ELSE [ok |-> TRUE, msg |-> "none"]

validate_arguments(args) == validate_result(args).ok

(***************************************************************************)
(* Documents.                                                              *)
(***************************************************************************)
Cell(class, headers, text, anchors) ==
    [class |-> class, headers |-> headers, text |-> text, a |-> anchors]

Anchor(href, text) == [href |-> href, text |-> text]

\* soup.find_all('tr') / the rows the nested table-then-row loops visit
RECURSIVE AllRows(_)
AllRows(soup) == IF soup = <<>> THEN <<>> ELSE Head(soup) \o AllRows(Tail(soup))

\* every td of the document, in document order
RECURSIVE AllCells(_)
AllCells(rows) == IF rows = <<>> THEN <<>> ELSE Head(rows) \o AllCells(Tail(rows))

\* tag.find('td', class_=c): the position of the first such cell, 0 for None
RECURSIVE find_class(_, _, _)
find_class(cells, c, k) ==
    IF k > Len(cells) THEN 0
    ELSE IF cells[k].class = c THEN k
    ELSE find_class(cells, c, k + 1)

\* soup.find('td', headers=h): the position of the first cell one of whose
\* headers tokens is h, 0 for None
RECURSIVE find_headers(_, _, _)
find_headers(cells, h, k) ==
    IF k > Len(cells) THEN 0
    ELSE IF \E t \in 1..Len(cells[k].headers) : cells[k].headers[t] = h THEN k
    ELSE find_headers(cells, h, k + 1)

(***************************************************************************)
(* urljoin (urllib.parse), for the references the model uses: a reference  *)
(* with an http or https scheme stands for itself, any other reference is  *)
(* a relative path and replaces the last segment of the base's path.  The  *)
(* base has a path (every base the model uses does).                       *)
(***************************************************************************)
\* the position of the last character of the base's path (before ? or #)
RECURSIVE PathEnd(_, _)
PathEnd(u, k) == IF k > Len(u) THEN Len(u)
                 ELSE IF u[k] \in {"?", "#"} THEN k - 1
                 ELSE PathEnd(u, k + 1)

\* the position of the last "/" at or before k, 0 when there is none
RECURSIVE LastSlash(_, _)
LastSlash(u, k) == IF k = 0 THEN 0
                   ELSE IF u[k] = "/" THEN k
                   ELSE LastSlash(u, k - 1)

BaseDir(base) == SubSeq(base, 1, LastSlash(base, PathEnd(base, 1)))

HasScheme(u) == \/ StartsWith(u, <<"h","t","t","p","s",":">>)
                \/ StartsWith(u, <<"h","t","t","p",":">>)

urljoin(base, url) == IF url = <<>> THEN base
                      ELSE IF HasScheme(url) THEN url
                      ELSE BaseDir(base) \o url

(***************************************************************************)
(* get_obec_links (main.py 63-82).                                         *)
(***************************************************************************)
Link(full_url, code, name) == [url |-> full_url, code |-> code, name |-> name]

\* the loop with full_url = a['href'], the reference left unresolved
RECURSIVE get_obec_links_raw(_, _, _)
get_obec_links_raw(rows, base_url, results) ==
    IF rows = <<>> THEN results
    ELSE LET row == Head(rows)
             cislo_td == find_class(row, "cislo", 1)
             name_td == find_class(row, "overflow_name", 1)
         IN IF cislo_td # 0 /\ name_td # 0
            THEN LET as == row[cislo_td].a
                 IN IF as # <<>> /\ as[1].href # <<>>
                    THEN get_obec_links_raw(Tail(rows), base_url,
                             Append(results, Link(as[1].href,
                                                  Strip(as[1].text),
                                                  Strip(row[name_td].text))))
                    ELSE get_obec_links_raw(Tail(rows), base_url, results)
            ELSE get_obec_links_raw(Tail(rows), base_url, results)

\* the loop over soup.find_all('tr') (main.py 72-81)
RECURSIVE get_obec_links_loop(_, _, _)
get_obec_links_loop(rows, base_url, results) ==
    IF rows = <<>> THEN results
    ELSE LET row == Head(rows)
             cislo_td == find_class(row, "cislo", 1)
             name_td == find_class(row, "overflow_name", 1)
         IN IF cislo_td # 0 /\ name_td # 0
            THEN LET as == row[cislo_td].a
                 IN IF as # <<>> /\ as[1].href # <<>>
                    THEN get_obec_links_loop(Tail(rows), base_url,
                             Append(results, Link(urljoin(base_url, as[1].href),
                                                  Strip(as[1].text),
                                                  Strip(row[name_td].text))))
                    ELSE get_obec_links_loop(Tail(rows), base_url, results)
            ELSE get_obec_links_loop(Tail(rows), base_url, results)

get_obec_links(soup, base_url) == get_obec_links_loop(AllRows(soup), base_url, <<>>)

(***************************************************************************)
(* get_party_names (main.py 84-97).                                        *)
(***************************************************************************)
\* the inner loop: the rows of one table
RECURSIVE party_names_rows(_, _)
party_names_rows(rows, names) ==
    IF rows = <<>> THEN names
    ELSE LET tr == Head(rows)
             name_td == find_class(tr, "overflow_name", 1)
         IN party_names_rows(Tail(rows),
                IF name_td # 0 THEN Append(names, Strip(tr[name_td].text))
                ELSE names)

\* the outer loop: the tables of the page
RECURSIVE party_names_tables(_, _)
party_names_tables(tables, names) ==
    IF tables = <<>> THEN names
    ELSE party_names_tables(Tail(tables), party_names_rows(Head(tables), names))

\* the scan stopped after the first table
get_party_names_first(soup) ==
    IF soup = <<>> THEN <<>> ELSE party_names_rows(Head(soup), <<>>)

get_party_names(soup) == party_names_tables(soup, <<>>)

(***************************************************************************)
(* parse_obec_data (main.py 112-139), applied to the document that         *)
(* get_soup returned at line 110.                                          *)
(***************************************************************************)
\* the headers tokens "sa2", "sa3", "sa6" of the three scalar cells
SA2 == <<"s","a","2">>
SA3 == <<"s","a","3">>
SA6 == <<"s","a","6">>

\* td.text.strip().replace('\xa0', '')
clean_text(td) == Replace(Strip(td.text), NBSP)

\* any(h.endswith('sa2') for h in headers)
votes_headers(td) == \E t \in 1..Len(td.headers) : EndsWith(td.headers[t], SA2)

\* the loop over tr.find_all('td', class_='cislo') with its break: the
\* position of vote_td, 0 for None
RECURSIVE find_vote_td(_, _)
find_vote_td(tr, k) ==
    IF k > Len(tr) THEN 0
    ELSE IF tr[k].class = "cislo" /\ votes_headers(tr[k]) THEN k
    ELSE find_vote_td(tr, k + 1)

\* the same loop without the break: the last matching cell wins
RECURSIVE find_vote_td_last(_, _)
find_vote_td_last(tr, k) ==
    IF k = 0 THEN 0
    ELSE IF tr[k].class = "cislo" /\ votes_headers(tr[k]) THEN k
    ELSE find_vote_td_last(tr, k - 1)

\* the rows of one table, the last matching cell taken
RECURSIVE hlasy_rows_last(_, _)
hlasy_rows_last(rows, hlasy) ==
    IF rows = <<>> THEN hlasy
    ELSE LET tr == Head(rows)
             vote_td == find_vote_td_last(tr, Len(tr))
         IN IF find_class(tr, "overflow_name", 1) = 0
            THEN hlasy_rows_last(Tail(rows), hlasy)
            ELSE hlasy_rows_last(Tail(rows),
                            Append(hlasy, IF vote_td # 0 THEN clean_text(tr[vote_td])
                                          ELSE <<>>))

\* the rows of one table, the else branch (the placeholder) left out
RECURSIVE hlasy_rows_noplaceholder(_, _)
hlasy_rows_noplaceholder(rows, hlasy) ==
    IF rows = <<>> THEN hlasy
    ELSE LET tr == Head(rows)
             vote_td == find_vote_td(tr, 1)
         IN IF find_class(tr, "overflow_name", 1) = 0
            THEN hlasy_rows_noplaceholder(Tail(rows), hlasy)
            ELSE hlasy_rows_noplaceholder(Tail(rows),
                            IF vote_td # 0 THEN Append(hlasy, clean_text(tr[vote_td]))
                            ELSE hlasy)

\* the rows of one table (main.py 119-137)
RECURSIVE hlasy_rows(_, _)
hlasy_rows(rows, hlasy) ==
    IF rows = <<>> THEN hlasy
    ELSE LET tr == Head(rows)
             vote_td == find_vote_td(tr, 1)
         IN IF find_class(tr, "overflow_name", 1) = 0
            THEN hlasy_rows(Tail(rows), hlasy)
            ELSE hlasy_rows(Tail(rows),
                            Append(hlasy, IF vote_td # 0 THEN clean_text(tr[vote_td])
                                          ELSE <<>>))

RECURSIVE hlasy_tables_noplaceholder(_, _)
hlasy_tables_noplaceholder(tables, hlasy) ==
    IF tables = <<>> THEN hlasy
    ELSE hlasy_tables_noplaceholder(Tail(tables),
                                    hlasy_rows_noplaceholder(Head(tables), hlasy))

RECURSIVE hlasy_tables_last(_, _)
hlasy_tables_last(tables, hlasy) ==
    IF tables = <<>> THEN hlasy
    ELSE hlasy_tables_last(Tail(tables), hlasy_rows_last(Head(tables), hlasy))

\* the tables of the page (main.py 116-118)
RECURSIVE hlasy_tables(_, _)
hlasy_tables(tables, hlasy) ==
    IF tables = <<>> THEN hlasy
    ELSE hlasy_tables(Tail(tables), hlasy_rows(Head(tables), hlasy))

\* a value returned, or an exception propagated
Returned(v) == [raised |-> FALSE, value |-> v]
Raised == [raised |-> TRUE, value |-> <<>>]

\* lines 112-139 around a given vote-count scan
parse_with(soup, hlasy) ==
    LET cells == AllCells(AllRows(soup))
        volici == find_headers(cells, SA2, 1)
        obalky == find_headers(cells, SA3, 1)
        platne == find_headers(cells, SA6, 1)
    IN IF volici = 0 \/ obalky = 0 \/ platne = 0
       THEN Raised    \* None.text: AttributeError
       ELSE Returned(<<clean_text(cells[volici]), clean_text(cells[obalky]),
                       clean_text(cells[platne])>> \o hlasy)

parse_obec_data_noplaceholder(soup) ==
    parse_with(soup, hlasy_tables_noplaceholder(soup, <<>>))

parse_obec_data_last(soup) == parse_with(soup, hlasy_tables_last(soup, <<>>))

parse_obec_data(soup) == parse_with(soup, hlasy_tables(soup, <<>>))

(***************************************************************************)
(* The inputs: argument lists and pages.                                   *)
(***************************************************************************)
SeqsUpTo(S, n) == UNION {[1..k -> S] : k \in 0..n}

\* a document of three tables: rows cut at c1 and c2
MkPage(rows, c1, c2) == <<SubSeq(rows, 1, c1), SubSeq(rows, c1 + 1, c2),
                          SubSeq(rows, c2 + 1, Len(rows))>>

\* "https://www.volby.cz/pls/ps2017nss/ps32?x=1/2"
UnitUrl == UrlPrefix \o <<"2","?","x","=","1","/","2">>
\* "https://www.volby.cz/pls/ps2017nss/ps3/u"
UnitUrlDeep == UrlPrefix \o <<"/","u">>
\* "http://www.volby.cz/pls/ps2017nss/ps32": the scheme differs
UrlHttp == <<"h","t","t","p">> \o SubSeq(UrlPrefix, 6, Len(UrlPrefix)) \o <<"2">>
\* the prefix less its last character
UrlShort == SubSeq(UrlPrefix, 1, Len(UrlPrefix) - 1)
\* "x" and then the prefix: the prefix is not at the start
UrlInside == <<"x">> \o UrlPrefix

OutCsv == <<"o",".","c","s","v">>
OutCsvX == <<"o",".","c","s","v","x">>
OutCsvUpper == <<"o",".","C","S","V">>
OutCs == <<"c","s","v">>

ArgStrings == {UrlPrefix, UnitUrl, UrlHttp, UrlShort, UrlInside,
               OutCsv, CsvSuffix, OutCsvX, OutCsvUpper, OutCs}

\* headers tokens of the party tables
T1SA1 == <<"t","1","s","a","1">>
T1SB1 == <<"t","1","s","b","1">>
T1SB2 == <<"t","1","s","b","2">>
T1SA2 == <<"t","1","s","a","2">>
T1SB3 == <<"t","1","s","b","3">>
T1SB4 == <<"t","1","s","b","4">>

\* cells of a municipality page
CVolici == Cell("cislo", <<SA2>>, <<" ","1",NBSP,"0","\n">>, <<>>)
CObalky == Cell("cislo", <<SA3>>, <<"8">>, <<>>)
CPlatne == Cell("cislo", <<SA6>>, <<"7">>, <<>>)
COrder == Cell("cislo", <<T1SA1, T1SB1>>, <<"1">>, <<>>)
CNameX == Cell("overflow_name", <<T1SA1, T1SB2>>, <<"X">>, <<>>)
CNameY == Cell("overflow_name", <<T1SA1, T1SB2>>, <<" ","Y","\n">>, <<>>)
CVotes == Cell("cislo", <<T1SA2, T1SB3>>, <<NBSP,"4",NBSP,"2"," ">>, <<>>)
CPercent == Cell("cislo", <<T1SA2, T1SB4>>, <<"5">>, <<>>)
CVotesCenter == Cell("center", <<T1SA2, T1SB3>>, <<"4">>, <<>>)

\* rows of a municipality page
RSummary == <<CVolici, CObalky, CPlatne>>
RNoVolici == <<CObalky, CPlatne>>
RNoObalky == <<CVolici, CPlatne>>
RNoPlatne == <<CVolici, CObalky>>
RPartyX == <<COrder, CNameX, CVotes, CPercent>>
RPartyY == <<COrder, CNameY, CVotes, CPercent>>
RPartyNoVotes == <<COrder, CNameY>>
RPartyPercent == <<COrder, CNameX, CVotesCenter, CPercent>>
RHead == <<>>

ObecRowKinds == {RSummary, RNoVolici, RNoObalky, RNoPlatne,
                 RPartyX, RPartyNoVotes, RPartyPercent, RHead}

NameRowKinds == {RPartyX, RPartyNoVotes, RSummary}

\* references of a territorial-unit page
HrefRel == <<"p","s","3","1","1","?","o","=","1">>
HrefRel2 == <<"p","s","3","1","1","?","o","=","2">>
HrefAbs == <<"h","t","t","p","s",":","/","/","x","/","3">>

\* cells and rows of a territorial-unit page
CCodeA == Cell("cislo", <<T1SA1, T1SB1>>, <<"5">>, <<Anchor(HrefRel, <<" ","5","\n">>)>>)
CCodeB == Cell("cislo", <<T1SA1, T1SB1>>, <<"6">>,
               <<Anchor(HrefAbs, <<"6">>), Anchor(HrefRel, <<"9">>)>>)
CCodeC == Cell("cislo", <<T1SA1, T1SB1>>, <<"7">>, <<Anchor(HrefRel2, <<"7">>)>>)
CCodeNoA == Cell("cislo", <<T1SA1, T1SB1>>, <<"8">>, <<>>)
CCodeNoHref == Cell("cislo", <<T1SA1, T1SB1>>, <<"8">>,
                    <<Anchor(<<>>, <<"8">>), Anchor(HrefRel, <<"8">>)>>)
CNameA == Cell("overflow_name", <<T1SA1, T1SB2>>, <<"\n","A"," ">>, <<>>)
CNameB == Cell("overflow_name", <<T1SA1, T1SB2>>, <<"B">>, <<>>)
CChoice == Cell("center", <<T1SA2>>, <<"X">>, <<Anchor(HrefRel, <<"X">>)>>)

RObecA == <<CCodeA, CNameA, CChoice>>
RObecB == <<CCodeB, CNameB, CChoice>>
RObecC == <<CCodeC, CNameA, CChoice>>
RNoAnchor == <<CCodeNoA, CNameA, CChoice>>
RNoHref == <<CCodeNoHref, CNameB>>
RNoName == <<CCodeA, CChoice>>
RNoCode == <<CNameA, CChoice>>
RSecondCode == <<CCodeNoA, CNameB, CCodeA>>

UnitRowKinds == {RObecA, RObecB, RNoAnchor, RNoHref, RNoName, RNoCode, RSecondCode}

BaseUrls == {UnitUrl, UnitUrlDeep}

(***************************************************************************)
(* What a run of main meets: its argument list and the responses of the    *)
(* portal.  get_soup (main.py 52-61) returns the parsed page or raises     *)
(* (requests.get or raise_for_status); the page served for a URL may       *)
(* differ from one fetch to the next.                                      *)
(***************************************************************************)
Prog == <<"m">>

MainArgvs == {<<Prog, UnitUrl, OutCsv>>, <<Prog, UnitUrlDeep, CsvSuffix>>,
              <<Prog>>, <<Prog, UnitUrl>>, <<Prog, UrlHttp, OutCsv>>,
              <<Prog, UnitUrl, OutCsvX>>, <<Prog, UnitUrl, OutCsv, OutCsv>>}

Page(soup) == [ok |-> TRUE, soup |-> soup]
Fail == [ok |-> FALSE, soup |-> <<>>]
NoResp == [ok |-> FALSE, soup |-> <<>>]

MainUnitPages == {MkPage(rows, 0, Len(rows)) :
                     rows \in SeqsUpTo({RObecA, RObecC, RNoAnchor}, MaxObce)}

PFull == <<(<<RSummary>>), <<RPartyX>>, <<RPartyY>>>>
PShort == <<(<<RSummary>>), <<RPartyX>>, <<>>>>
PNoVotes == <<(<<RSummary>>), <<RPartyNoVotes>>, <<RPartyX>>>>
PNoScalar == <<(<<RNoObalky>>), <<RPartyX>>, <<RPartyY>>>>
PBlank == <<(<<>>), <<>>, <<>>>>

MainObecPages == {PFull, PShort, PNoVotes, PNoScalar, PBlank}

UnitResponses == {Page(p) : p \in MainUnitPages} \cup {Fail}
ObecResponses == {Page(p) : p \in MainObecPages} \cup {Fail}

Event(ev, url, resp) == [ev |-> ev, url |-> url, resp |-> resp]

NoFile == [written |-> FALSE, name |-> <<>>, header |-> <<>>, rows |-> <<>>]

NoCall == [fn |-> "none", args |-> <<>>, soup |-> <<>>, base |-> <<>>]
NoRet == [done |-> FALSE, raised |-> FALSE, value |-> <<>>]

\* ["code", "location", "registered", "envelopes", "valid"] (main.py 180)
HeaderPrefix == <<(<<"c","o","d","e">>), <<"l","o","c","a","t","i","o","n">>,
                  <<"r","e","g","i","s","t","e","r","e","d">>,
                  <<"e","n","v","e","l","o","p","e","s">>,
                  <<"v","a","l","i","d">>>>

(***************************************************************************)
(* main (main.py 154-190).                                                 *)
(***************************************************************************)
Init ==
    /\ argv \in MainArgvs
    /\ pc = "validate"
    /\ status = "running"
    /\ obec_infos = <<>>
    /\ party_names = <<>>
    /\ header = <<>>
    /\ data = <<>>
    /\ i = 0
    /\ trace = <<>>
    /\ out = <<>>
    /\ file = NoFile
    /\ call = NoCall
    /\ ret = NoRet

\* lines 163-164 with the diagnostic of a rejection lost
ValidateStep_silent ==
    /\ pc = "validate"
    /\ trace' = Append(trace, Event("validate", <<>>, NoResp))
    /\ IF validate_result(argv).ok
       THEN pc' = "fetch_unit" /\ status' = status
       ELSE pc' = "done" /\ status' = "returned"
    /\ UNCHANGED <<argv, obec_infos, party_names, header, data, i, out, file, call, ret>>

\* lines 163-167
ValidateStep ==
    /\ pc = "validate"
    /\ trace' = Append(trace, Event("validate", <<>>, NoResp))
    /\ LET r == validate_result(argv)
       IN IF r.ok
          THEN pc' = "fetch_unit" /\ out' = out /\ status' = status
          ELSE pc' = "done" /\ out' = Append(out, r.msg) /\ status' = "returned"
    /\ UNCHANGED <<argv, obec_infos, party_names, header, data, i, file, call, ret>>

\* lines 169-175 with the check of line 173 left out: an empty table is written
FetchUnit_nocheck ==
    /\ pc = "fetch_unit"
    /\ \E resp \in UnitResponses :
          /\ trace' = IF resp.ok
                      THEN trace \o <<Event("fetch_unit", argv[2], resp),
                                      Event("extract", <<>>, NoResp)>>
                      ELSE Append(trace, Event("fetch_unit", argv[2], resp))
          /\ out' = Append(out, "loading_main")
          /\ IF ~resp.ok
             THEN pc' = "done" /\ status' = "raised" /\ obec_infos' = obec_infos
             ELSE /\ obec_infos' = get_obec_links(resp.soup, argv[2])
                  /\ status' = status
                  /\ pc' = IF obec_infos' = <<>> THEN "save" ELSE "fetch_header"
    /\ UNCHANGED <<argv, party_names, header, data, i, file, call, ret>>

\* lines 169-175
FetchUnit ==
    /\ pc = "fetch_unit"
    /\ \E resp \in UnitResponses :
          /\ trace' = IF resp.ok
                      THEN trace \o <<Event("fetch_unit", argv[2], resp),
                                      Event("extract", <<>>, NoResp)>>
                      ELSE Append(trace, Event("fetch_unit", argv[2], resp))
          /\ IF ~resp.ok
             THEN /\ pc' = "done" /\ status' = "raised"
                  /\ obec_infos' = obec_infos
                  /\ out' = Append(out, "loading_main")
             ELSE /\ obec_infos' = get_obec_links(resp.soup, argv[2])
                  /\ IF obec_infos' = <<>>
                     THEN /\ pc' = "done" /\ status' = "returned"
                          /\ out' = out \o <<"loading_main", "no_obce">>
                     ELSE /\ pc' = "fetch_header" /\ status' = status
                          /\ out' = Append(out, "loading_main")
    /\ UNCHANGED <<argv, party_names, header, data, i, file, call, ret>>

\* lines 177-182
FetchHeader ==
    /\ pc = "fetch_header"
    /\ \E resp \in ObecResponses :
          /\ trace' = Append(trace, Event("fetch_header", obec_infos[1].url, resp))
          /\ out' = Append(out, "loading_parties")
          /\ IF ~resp.ok
             THEN /\ pc' = "done" /\ status' = "raised"
                  /\ UNCHANGED <<party_names, header, data, i>>
             ELSE /\ party_names' = get_party_names(resp.soup)
                  /\ header' = HeaderPrefix \o party_names'
                  /\ data' = <<>>
                  /\ i' = 1
                  /\ pc' = "loop" /\ status' = status
    /\ UNCHANGED <<argv, obec_infos, file, call, ret>>

\* one pass of the loop of lines 183-187, a municipality that fails skipped
ProcessObec_skip ==
    /\ pc = "loop"
    /\ \E resp \in ObecResponses :
          LET link == obec_infos[i]
              row == parse_obec_data(resp.soup)
          IN /\ trace' = Append(trace, Event("fetch_obec", link.url, resp))
             /\ out' = Append(out, "progress")
             /\ data' = IF ~resp.ok \/ row.raised THEN data
                        ELSE Append(data, <<link.code, link.name>> \o row.value)
             /\ i' = i + 1
             /\ pc' = IF i = Len(obec_infos) THEN "save" ELSE "loop"
             /\ status' = status
    /\ UNCHANGED <<argv, obec_infos, party_names, header, file, call, ret>>

\* one pass of the loop of lines 183-187, the row put before the others
ProcessObec_prepend ==
    /\ pc = "loop"
    /\ \E resp \in ObecResponses :
          LET link == obec_infos[i]
              row == parse_obec_data(resp.soup)
          IN /\ trace' = Append(trace, Event("fetch_obec", link.url, resp))
             /\ out' = Append(out, "progress")
             /\ IF ~resp.ok \/ row.raised
                THEN /\ pc' = "done" /\ status' = "raised"
                     /\ UNCHANGED <<data, i>>
                ELSE /\ data' = <<(<<link.code, link.name>> \o row.value)>> \o data
                     /\ i' = i + 1
                     /\ pc' = IF i = Len(obec_infos) THEN "save" ELSE "loop"
                     /\ status' = status
    /\ UNCHANGED <<argv, obec_infos, party_names, header, file, call, ret>>

\* one pass of the loop of lines 183-187, the first municipality's row taken
\* from the page already fetched for the header
ProcessObec_cached ==
    /\ pc = "loop"
    /\ \E resp \in (IF i = 1 THEN {trace[Len(trace)].resp} ELSE ObecResponses) :
          LET link == obec_infos[i]
              row == parse_obec_data(resp.soup)
          IN /\ trace' = IF i = 1 THEN trace
                         ELSE Append(trace, Event("fetch_obec", link.url, resp))
             /\ out' = Append(out, "progress")
             /\ IF ~resp.ok \/ row.raised
                THEN /\ pc' = "done" /\ status' = "raised"
                     /\ UNCHANGED <<data, i>>
                ELSE /\ data' = Append(data, <<link.code, link.name>> \o row.value)
                     /\ i' = i + 1
                     /\ pc' = IF i = Len(obec_infos) THEN "save" ELSE "loop"
                     /\ status' = status
    /\ UNCHANGED <<argv, obec_infos, party_names, header, file, call, ret>>

\* one pass of the loop of lines 183-187
ProcessObec ==
    /\ pc = "loop"
    /\ \E resp \in ObecResponses :
          LET link == obec_infos[i]
              row == parse_obec_data(resp.soup)
          IN /\ trace' = Append(trace, Event("fetch_obec", link.url, resp))
             /\ out' = Append(out, "progress")
             /\ IF ~resp.ok \/ row.raised
                THEN /\ pc' = "done" /\ status' = "raised"
                     /\ UNCHANGED <<data, i>>
                ELSE /\ data' = Append(data, <<link.code, link.name>> \o row.value)
                     /\ i' = i + 1
                     /\ pc' = IF i = Len(obec_infos) THEN "save" ELSE "loop"
                     /\ status' = status
    /\ UNCHANGED <<argv, obec_infos, party_names, header, file, call, ret>>

\* lines 189-190 and save_to_csv (main.py 141-152); open() may raise
Save ==
    /\ pc = "save"
    /\ \E opened \in BOOLEAN :
          IF opened
          THEN /\ file' = [written |-> TRUE, name |-> argv[3],
                           header |-> header, rows |-> data]
               /\ trace' = Append(trace, Event("write", argv[3], NoResp))
               /\ out' = Append(out, "done")
               /\ status' = "returned"
          ELSE /\ trace' = Append(trace, Event("write_failed", argv[3], NoResp))
               /\ status' = "raised"
               /\ UNCHANGED <<file, out>>
    /\ pc' = "done"
    /\ UNCHANGED <<argv, obec_infos, party_names, header, data, i, call, ret>>

Next == ValidateStep \/ FetchUnit \/ FetchHeader \/ ProcessObec \/ Save

Spec == Init /\ [][Next]_vars

\* the script runs on: a step that can be taken is taken
FairSpec == Spec /\ WF_vars(Next)

(***************************************************************************)
(* The functions applied on their own to inputs drawn from bounded sets.   *)
(***************************************************************************)
FnCall(fn, args, soup, base) == [fn |-> fn, args |-> args, soup |-> soup, base |-> base]

\* call is a function applied to a page of at most n rows of the given kinds
PageCall(fn, kinds, n, bases) ==
    \E k \in 0..n : \E rows \in [1..k -> kinds] : \E c1, c2 \in 0..k : \E b \in bases :
        /\ c1 <= c2
        /\ call = FnCall(fn, <<>>, MkPage(rows, c1, c2), b)

FnInit ==
    /\ \/ \E k \in 0..MaxArgs : \E a \in [1..k -> ArgStrings] :
             call = FnCall("validate_arguments", a, <<>>, <<>>)
       \/ PageCall("get_obec_links", UnitRowKinds, MaxUnitRows, BaseUrls)
       \/ PageCall("get_party_names", NameRowKinds, MaxNameRows, {<<>>})
       \/ PageCall("parse_obec_data", ObecRowKinds, MaxRows, {<<>>})
    /\ ret = NoRet
    /\ argv = <<>>
    /\ pc = "idle"
    /\ status = "idle"
    /\ obec_infos = <<>>
    /\ party_names = <<>>
    /\ header = <<>>
    /\ data = <<>>
    /\ i = 0
    /\ trace = <<>>
    /\ out = <<>>
    /\ file = NoFile

Done(v) == [done |-> TRUE, raised |-> FALSE, value |-> v]

CallValidate ==
    /\ call.fn = "validate_arguments" /\ ~ret.done
    /\ ret' = Done(validate_arguments(call.args))
    /\ UNCHANGED <<call, mainvars>>

CallObecLinks ==
    /\ call.fn = "get_obec_links" /\ ~ret.done
    /\ ret' = Done(get_obec_links(call.soup, call.base))
    /\ UNCHANGED <<call, mainvars>>

CallPartyNames ==
    /\ call.fn = "get_party_names" /\ ~ret.done
    /\ ret' = Done(get_party_names(call.soup))
    /\ UNCHANGED <<call, mainvars>>

CallParseObec ==
    /\ call.fn = "parse_obec_data" /\ ~ret.done
    /\ LET r == parse_obec_data(call.soup)
       IN ret' = [done |-> TRUE, raised |-> r.raised, value |-> r.value]
    /\ UNCHANGED <<call, mainvars>>

FnNext == CallValidate \/ CallObecLinks \/ CallPartyNames \/ CallParseObec

FnSpec == FnInit /\ [][FnNext]_vars

(***************************************************************************)
(* Notions the properties are stated in.                                   *)
(***************************************************************************)
\* s begins with p / ends with p, position by position
HasPrefix(s, p) == /\ Len(s) >= Len(p)
                   /\ \A j \in 1..Len(p) : s[j] = p[j]
HasSuffix(s, p) == /\ Len(s) >= Len(p)
                   /\ \A j \in 1..Len(p) : s[Len(s) - Len(p) + j] = p[j]

\* the j-th smallest element of a set of positions
Nth(S, j) == CHOOSE r \in S : Cardinality({x \in S : x <= r}) = j

\* the first position of a cell of the row that satisfies P, 0 if none
FirstCell(row, P(_)) ==
    IF \E k \in 1..Len(row) : P(row[k])
    THEN CHOOSE k \in 1..Len(row) : P(row[k]) /\ \A m \in 1..(k - 1) : ~P(row[m])
    ELSE 0

IsCode(c) == c.class = "cislo"
IsName(c) == c.class = "overflow_name"
IsVotes(c) == /\ c.class = "cislo"
              /\ \E t \in 1..Len(c.headers) : HasSuffix(c.headers[t], <<"s","a","2">>)

\* a party row: a row with an overflow-name cell
IsPartyRow(row) == \E k \in 1..Len(row) : IsName(row[k])

\* the positions of the party rows among the rows of the page
PartyRowsOf(soup) == {r \in 1..Len(AllRows(soup)) : IsPartyRow(AllRows(soup)[r])}

\* a municipality row: a code cell and a name cell, the code cell holding a
\* hyperlink (its first anchor has a reference)
Qualifies(row) ==
    /\ \E k \in 1..Len(row) : IsCode(row[k])
    /\ \E k \in 1..Len(row) : IsName(row[k])
    /\ LET c == row[FirstCell(row, IsCode)]
       IN c.a # <<>> /\ Len(c.a[1].href) > 0

\* url is href resolved against base: href itself when it has a scheme, else
\* href in the directory of the base's path
IsResolved(url, base, href) ==
    IF HasPrefix(href, <<"h","t","t","p","s",":">>) \/ HasPrefix(href, <<"h","t","t","p",":">>)
    THEN url = href
    ELSE \E d \in 1..Len(base) :
            /\ base[d] = "/"
            /\ url = SubSeq(base, 1, d) \o href
            /\ \A j \in (d + 1)..Len(base) :
                  base[j] = "/" => \E q \in (d + 1)..(j - 1) : base[q] \in {"?", "#"}
            /\ \A q \in 1..d : base[q] \notin {"?", "#"}

\* the page lacks one of the three mandatory scalar cells
LacksScalar(soup) ==
    \E h \in {SA2, SA3, SA6} :
        \A r \in 1..Len(AllRows(soup)) : \A k \in 1..Len(AllRows(soup)[r]) :
            \A t \in 1..Len(AllRows(soup)[r][k].headers) :
                AllRows(soup)[r][k].headers[t] # h

IsFetch(e) == e.ev \in {"fetch_unit", "fetch_header", "fetch_obec"}

Fetches == {k \in 1..Len(trace) : IsFetch(trace[k])}

\* the territorial-unit page was fetched and parsed
UnitFetched == Len(trace) >= 2 /\ trace[2].ev = "fetch_unit" /\ trace[2].resp.ok

Diagnostics == {"two_arguments", "bad_url", "bad_csv"}

(***************************************************************************)
(* C1: validate_arguments accepts an argument list if and only if exactly  *)
(* two arguments follow the program name, the first starts with the        *)
(* portal's territorial-unit prefix and the second ends with .csv.         *)
(***************************************************************************)
C1_ValidateIff ==
    (call.fn = "validate_arguments" /\ ret.done) =>
        (ret.value <=> /\ Len(call.args) = 3
                       /\ HasPrefix(call.args[2], UrlPrefix)
                       /\ HasSuffix(call.args[3], CsvSuffix))

C1_Witness ==
    /\ call.fn = "validate_arguments" /\ ret.done
    /\ ret.value
    /\ call.args[2] = UnitUrl /\ call.args[3] = OutCsv

(***************************************************************************)
(* C2: when validate_arguments rejects the arguments, main prints a        *)
(* diagnostic and returns; no page is fetched and no file is written.      *)
(***************************************************************************)
C2_RejectStops ==
    (pc # "validate" /\ ~validate_arguments(argv)) =>
        /\ status = "returned"
        /\ Len(out) = 1 /\ out[1] \in Diagnostics
        /\ Fetches = {}
        /\ ~file.written

C2_Witness ==
    /\ pc = "done" /\ Len(argv) = 3 /\ ~validate_arguments(argv)
    /\ out = <<"bad_url">>

(***************************************************************************)
(* C3: when the territorial-unit page yields no municipality link, main    *)
(* prints a diagnostic and returns normally; no municipality page is       *)
(* fetched and no file is written.                                         *)
(***************************************************************************)
C3_EmptyDiscovery ==
    (UnitFetched /\ \A r \in 1..Len(AllRows(trace[2].resp.soup)) :
                        ~Qualifies(AllRows(trace[2].resp.soup)[r])) =>
        /\ status = "returned"
        /\ out[Len(out)] = "no_obce"
        /\ Fetches = {2}
        /\ ~file.written
        /\ pc = "done"

C3_Witness ==
    /\ UnitFetched /\ obec_infos = <<>> /\ status = "returned"
    /\ Len(AllRows(trace[2].resp.soup)) = 2

(***************************************************************************)
(* C4: a fetch that fails, or a municipality page without one of the three *)
(* scalar cells, ends the run with a propagated failure and no file; the   *)
(* file is written only once every discovered municipality's row has been  *)
(* extracted.                                                              *)
(***************************************************************************)
C4_NoPartialOutput ==
    /\ (\E k \in Fetches : \/ ~trace[k].resp.ok
                           \/ trace[k].ev = "fetch_obec" /\ LacksScalar(trace[k].resp.soup)) =>
           (status = "raised" /\ ~file.written /\ pc = "done")
    /\ file.written =>
           /\ Len(file.rows) = Len(obec_infos)
           /\ Cardinality({k \in Fetches : trace[k].ev = "fetch_obec"}) = Len(obec_infos)
           /\ \A k \in Fetches : trace[k].resp.ok
           /\ \A k \in Fetches : trace[k].ev = "fetch_obec" => ~LacksScalar(trace[k].resp.soup)

C4_Witness ==
    /\ status = "raised" /\ Len(data) = 1 /\ Len(obec_infos) = 2
    /\ trace[Len(trace)].ev = "fetch_obec"
    /\ trace[Len(trace)].resp.ok
    /\ LacksScalar(trace[Len(trace)].resp.soup)

(***************************************************************************)
(* C5 as stated: every result row's vote-count segment has the length of   *)
(* the PartyList fixed from the first municipality, so every data row has  *)
(* as many fields as the header.                                           *)
(***************************************************************************)
C5_RowsMatchHeader ==
    \A k \in 1..Len(data) : Len(data[k]) = Len(header)

\* the page fetched for the k-th municipality's row, and for the header
RowPage(k) == trace[4 + k].resp.soup
HeaderPage == trace[4].resp.soup

(***************************************************************************)
(* C5 amended: every result row's vote-count segment has one entry for     *)
(* each party row of the page fetched for that municipality (an empty      *)
(* string for a party row without a votes cell), so the data row has       *)
(* 5 + that number of fields; it has as many fields as the header exactly  *)
(* when that page has as many party rows as the page the header was taken  *)
(* from.                                                                   *)
(***************************************************************************)
C5_RowsMatchOwnPage ==
    \A k \in 1..Len(data) :
        /\ trace[4 + k].ev = "fetch_obec"
        /\ Len(data[k]) = 5 + Cardinality(PartyRowsOf(RowPage(k)))
        /\ (Len(data[k]) = Len(header)) <=>
               (Cardinality(PartyRowsOf(RowPage(k))) = Cardinality(PartyRowsOf(HeaderPage)))

C5_Witness ==
    /\ Len(data) = 2
    /\ Len(data[1]) = Len(header) /\ data[1][6] = <<>>
    /\ Len(data[2]) < Len(header)

(***************************************************************************)
(* C6: on a successful run the written table is the header [code,          *)
(* location, registered, envelopes, valid] followed by the party names of  *)
(* the first municipality's page, then one data row per discovered         *)
(* municipality in discovery order, row i beginning with the code and the  *)
(* name of the i-th discovered municipality.                               *)
(***************************************************************************)
C6_WrittenTable ==
    file.written =>
        LET rows == AllRows(trace[2].resp.soup)
            q == {r \in 1..Len(rows) : Qualifies(rows[r])}
            names == PartyRowsOf(HeaderPage)
        IN /\ SubSeq(file.header, 1, 5) = HeaderPrefix
           /\ Len(file.header) = 5 + Cardinality(names)
           /\ \A j \in 1..Cardinality(names) :
                 LET tr == AllRows(HeaderPage)[Nth(names, j)]
                 IN file.header[5 + j] = Strip(tr[FirstCell(tr, IsName)].text)
           /\ Len(file.rows) = Cardinality(q)
           /\ \A j \in 1..Cardinality(q) :
                 LET row == rows[Nth(q, j)]
                     code == row[FirstCell(row, IsCode)]
                     name == row[FirstCell(row, IsName)]
                 IN /\ file.rows[j][1] = Strip(code.a[1].text)
                    /\ file.rows[j][2] = Strip(name.text)
                    /\ trace[4 + j].url = obec_infos[j].url
                    /\ SubSeq(file.rows[j], 3, Len(file.rows[j]))
                           = parse_obec_data(RowPage(j)).value

C6_Witness ==
    /\ file.written /\ Len(file.rows) = 2
    /\ file.rows[1][1] # file.rows[2][1]
    /\ Len(file.header) = 7
    /\ Len(AllRows(trace[2].resp.soup)) = 2

(***************************************************************************)
(* C7: get_obec_links on a page with k qualifying rows returns exactly k   *)
(* entries, in document order of those rows, none for a row that does not  *)
(* qualify, each with its URL resolved against the base URL.               *)
(***************************************************************************)
C7_LinksOfQualifyingRows ==
    (call.fn = "get_obec_links" /\ ret.done) =>
        LET rows == AllRows(call.soup)
            q == {r \in 1..Len(rows) : Qualifies(rows[r])}
        IN /\ Len(ret.value) = Cardinality(q)
           /\ \A j \in 1..Cardinality(q) :
                 LET row == rows[Nth(q, j)]
                     code == row[FirstCell(row, IsCode)]
                     name == row[FirstCell(row, IsName)]
                 IN /\ IsResolved(ret.value[j].url, call.base, code.a[1].href)
                    /\ HasPrefix(ret.value[j].url, <<"h","t","t","p","s",":","/","/">>)
                    /\ ret.value[j].code = Strip(code.a[1].text)
                    /\ ret.value[j].name = Strip(name.text)

C7_Witness ==
    /\ call.fn = "get_obec_links" /\ ret.done
    /\ Len(AllRows(call.soup)) = 3
    /\ ~Qualifies(AllRows(call.soup)[2])
    /\ Len(ret.value) = 2
    /\ ret.value[1].url # ret.value[2].url
    /\ call.base = UnitUrl
    /\ ret.value[1].url = SubSeq(UrlPrefix, 1, Len(UrlPrefix) - 3) \o HrefRel

(***************************************************************************)
(* C8: parse_obec_data returns a vote-count segment with one entry for     *)
(* each party row of the page, at the row's document-order position: the   *)
(* text of the row's first numeric-class cell with a headers token ending  *)
(* in sa2 (stripped, no-break spaces removed), or the empty string when    *)
(* the row has no such cell.                                               *)
(***************************************************************************)
C8_VotesPerPartyRow ==
    (call.fn = "parse_obec_data" /\ ret.done /\ ~ret.raised) =>
        LET rows == AllRows(call.soup)
            pr == PartyRowsOf(call.soup)
            votes == SubSeq(ret.value, 4, Len(ret.value))
        IN /\ Len(ret.value) = 3 + Cardinality(pr)
           /\ \A j \in 1..Cardinality(pr) :
                 LET tr == rows[Nth(pr, j)]
                     v == FirstCell(tr, IsVotes)
                 IN votes[j] = IF v = 0 THEN <<>>
                               ELSE Replace(Strip(tr[v].text), NBSP)

C8_Witness ==
    /\ call.fn = "parse_obec_data" /\ ret.done /\ ~ret.raised
    /\ Len(ret.value) = 5
    /\ ret.value[4] = <<>>
    /\ ret.value[5] = <<"4","2">>

(***************************************************************************)
(* C9: get_party_names returns the names of all party rows of every table  *)
(* of the page in document order, one entry per party row, equal names     *)
(* kept: two 3-row tables yield 6 names.                                   *)
(***************************************************************************)
C9_NamesAcrossTables ==
    (call.fn = "get_party_names" /\ ret.done) =>
        LET rows == AllRows(call.soup)
            pr == PartyRowsOf(call.soup)
        IN /\ Len(ret.value) = Cardinality(pr)
           /\ \A j \in 1..Cardinality(pr) :
                 LET tr == rows[Nth(pr, j)]
                 IN ret.value[j] = Strip(tr[FirstCell(tr, IsName)].text)

C9_Witness ==
    /\ call.fn = "get_party_names" /\ ret.done
    /\ Len(call.soup[1]) = 3 /\ Len(call.soup[2]) = 3 /\ Len(call.soup[3]) = 0
    /\ Len(ret.value) = 6
    /\ ret.value[1] = ret.value[4] /\ ret.value[1] # ret.value[2]

(***************************************************************************)
(* C10: the events of a run occur in the order validate, fetch of the unit *)
(* page, extraction of the links, fetch of the first municipality's page   *)
(* for the header, one fetch per municipality in discovery order (the      *)
(* first municipality's page fetched again), one write; nothing follows a  *)
(* failed fetch, a successful run over n municipalities makes n + 2        *)
(* fetches and writes once, after the last fetch; and the run terminates.  *)
(***************************************************************************)
C10_Order ==
    LET n == Len(obec_infos)
    IN /\ \A k \in 1..Len(trace) :
             LET e == trace[k]
             IN CASE k = 1 -> e.ev = "validate"
                  [] k = 2 -> e.ev = "fetch_unit" /\ e.url = argv[2]
                  [] k = 3 -> e.ev = "extract"
                  [] k = 4 -> e.ev = "fetch_header" /\ e.url = obec_infos[1].url
                  [] k >= 5 /\ k <= 4 + n ->
                         e.ev = "fetch_obec" /\ e.url = obec_infos[k - 4].url
                  [] k = 5 + n -> e.ev \in {"write", "write_failed"}
                  [] OTHER -> FALSE
       /\ \A k \in Fetches : ~trace[k].resp.ok => k = Len(trace)
       /\ file.written =>
             /\ Cardinality(Fetches) = n + 2
             /\ n >= 1
             /\ trace[Len(trace)].ev = "write"
             /\ Cardinality({k \in 1..Len(trace) : trace[k].ev = "write"}) = 1
             /\ \A k \in Fetches : k < Len(trace)

C10_OrderedRun == []C10_Order /\ <>(pc = "done")

C10_Witness ==
    /\ file.written /\ Len(obec_infos) = 2
    /\ trace[4].url = trace[5].url /\ trace[4].resp # trace[5].resp
    /\ trace[5].url # trace[6].url
    /\ Cardinality(Fetches) = 4

====
